---- MODULE Spec2Model ----
(***************************************************************************)
(* Model of zsh-module/src/export_module.rs: the process-wide module       *)
(* holder (MODULE), the unwind-containment wrapper (handle_panic), the     *)
(* lifecycle entry points generated by mod_fn! and the builtin dispatch    *)
(* trampoline (builtin_callback).                                          *)
(*                                                                         *)
(* Spec: every entry point is one atomic action: the host calls it and it  *)
(* runs to its end (a returned code, or an unwind that leaves the          *)
(* extern "C" function).                                                   *)
(* SpecConc: the same entry points called from several host threads, each  *)
(* call split at its accesses to the lock, the holder and the flag.        *)
(* SpecNested: one host thread whose builtin handlers make the host call   *)
(* entry points of the module again.                                       *)
(* SpecMarshal: strings_from_ptr applied to pointer arrays.                *)
(* SpecPath: the FilePath value type of zsh-module/src/types/files.rs.     *)
(* Each specification moves its own variables and leaves the others at     *)
(* their idle values.                                                      *)
(***************************************************************************)
EXTENDS Integers, Sequences, FiniteSets, TLC

(***************************************************************************)
(* Bounds                                                                  *)
(***************************************************************************)
\* longest argument list the host passes to a builtin
MaxArgs == 2
\* longest pointer array marshalled on its own
MaxPtrs == 4
\* longest path, in characters or stray bytes
MaxPathUnits == 2
\* host threads that call into the module
NThreads == 2
\* calls of the module that can be open on one thread at a time
MaxDepth == 2

(***************************************************************************)
(* Values                                                                  *)
(***************************************************************************)
\* Option<T> and Result<T, E>
NoneV == [tag |-> "None"]
Some(v) == [tag |-> "Some", val |-> v]
Ok(v) == [tag |-> "Ok", val |-> v]
Err(e) == [tag |-> "Err", err |-> e]

\* A C string is its sequence of bytes (without the terminating 0).
\* The bytes used are ASCII letters and 0xFF, which occurs in no UTF-8 text.
cA == <<97>>
cB == <<98>>
cC == <<99>>
cX == <<120>>
cM == <<109>>
cBad == <<255>>

\* CStr::to_str: the same bytes viewed as text when they are valid UTF-8.
\* On the bytes above a string is valid UTF-8 exactly when all are ASCII.
to_str(c) ==
    IF \A i \in 1..Len(c) : c[i] \in 0..127
    THEN Ok([utf8 |-> c])
    ELSE Err("Utf8Error")

\* a slot of an argument array: a pointer to a C string, or the null
\* pointer that terminates the array
Ptr(c) == [null |-> FALSE, cstr |-> c]
NULL == [null |-> TRUE, cstr |-> <<>>]

\* Outcome of a closure run under catch_unwind: it returns a value or unwinds.
\* `module` is the holder's content when the closure ends, `invoked` the
\* handler invocations it made, `reads` the argument slots it read.
Return(v, m, inv, rd) ==
    [unwind |-> FALSE, msg |-> "", val |-> v, module |-> m, invoked |-> inv, reads |-> rd]
Unwind(msg, m, inv, rd) ==
    [unwind |-> TRUE, msg |-> msg, val |-> 0, module |-> m, invoked |-> inv, reads |-> rd]

\* the code the boundary hands to the host when the wrapper has no result
POISON_CODE == 65

(***************************************************************************)
(* Inputs the host and the plugin can supply                               *)
(***************************************************************************)
\* zsys::Module handles, by the node.nam they carry
ModHandles == {[nam |-> cM], [nam |-> cBad]}

\* names the plugin registers builtins under (text, by construction)
RegNames == {cA, cB}
\* names the host may dispatch
DispatchNames == {cA, cB, cC, cBad}
\* argument strings
ArgStrs == {cX, cBad}

SeqsUpTo(S, n) == UNION {[1..k -> S] : k \in 0..n}

\* null-terminated pointer arrays: the arguments, the terminator, and the
\* memory after the terminator, which belongs to someone else
Argvs ==
    {a \o <<NULL, Ptr(cX)>> : a \in SeqsUpTo({Ptr(c) : c \in ArgStrs}, MaxArgs)}

\* a Module as the plugin's constructor returns it: the dispatch table (by
\* its keys; the handler stored under key n is handler n) and the builtin
\* descriptors of its features, each with a handlerfunc slot
NewModule(names) ==
    [bintable |-> names, handlerfunc |-> [n \in names |-> NoneV]]

\* what __zsh_rust_setup() can do
CtorOutcomes ==
    {Ok(NewModule(ns)) : ns \in SUBSET RegNames} \cup {Err("AnyError"), [tag |-> "Panic"]}

\* what a builtin handler can do
HandlerOutcomes == {"Ok", "Err", "Panic"}

\* what zsys::handlefeatures / zsys::setfeatureenables return
ExtCodes == {0, 1}

(***************************************************************************)
(* State                                                                   *)
(***************************************************************************)
VARIABLES
    module,     \* MODULE.module: Option<Module>
    panicked,   \* MODULE.panicked
    escaped,    \* an unwind left an extern "C" function (the process is gone)
    last,       \* the call that produced this state, with its pre-state and
                \* the Module its constructor built
    prev,       \* the call before it (op, code, collaborator outcome, whether
                \* a handler ran)
    everCaught, \* history: some call so far caught an unwind
    setupOpen,  \* history: a setup returned 0 and no finish returned since
    setupLive,  \* history: a setup returned 0 and no finish that started
                \* with the flag clear returned since
    marsh,      \* a pointer array and what strings_from_ptr made of it
    fs,         \* the paths that exist on the filesystem
    fp,         \* the caller's FilePath binding
    fpLast,     \* the FilePath operation that produced this state
    lock,       \* MODULE.module's mutex: 0, or the thread that holds a guard
    stack,      \* per thread, the calls it has open, the innermost last
    ret         \* per thread, the code its latest call returned

vars == <<module, panicked, escaped, last, prev, everCaught, setupOpen, setupLive,
          marsh, fs, fp, fpLast, lock, stack, ret>>

Threads == 1..NThreads

\* the history of the calls of Spec
histVars == <<last, prev, everCaught, setupOpen, setupLive>>
\* the variables of the calls in progress on the host's threads
concVars == <<lock, stack, ret>>
\* the variables of the holder, of the history and of the threads
holderVars == <<module, panicked, escaped, histVars, concVars>>
\* the variables of the marshalling and of the path specifications
marshalVars == <<marsh>>
pathVars == <<fs, fp, fpLast>>

\* the values those variables rest at
MarshalIdle == marsh = [argv |-> <<NULL>>, out |-> NoneV]
PathIdle ==
    /\ fs = {}
    /\ fp = NoneV
    /\ fpLast = [op |-> "init", arg |-> <<>>, res |-> NoneV, pre |-> NoneV, self |-> NoneV]

(***************************************************************************)
(* The holder                                                              *)
(***************************************************************************)
\* set_mod that keeps an instance that is already installed
set_mod_keep(m, new) == IF m.tag = "Some" THEN m ELSE Some(new)

\* set_mod: the new content of the holder
set_mod(m, new) == Some(new)

\* drop_mod without the test of the flag
drop_mod_unconditional(m, p) == NoneV

\* drop_mod: the new content of the holder
drop_mod(m, p) == IF ~p THEN NoneV ELSE m

\* get_mod: the instance, or the panic of expect("No module set")
get_mod(m) == IF m.tag = "Some" THEN Ok(m.val) ELSE Err("No module set")

mod_get_name(mod) == mod.nam

(***************************************************************************)
(* Marshalling                                                             *)
(***************************************************************************)
\* strings_from_ptr that takes a pointer to an empty string for the end
RECURSIVE strings_from_ptr_stops_at_empty(_, _, _, _)
strings_from_ptr_stops_at_empty(mem, ptr, vec, rd) ==
    IF mem[ptr] = NULL \/ mem[ptr].cstr = <<>>
    THEN [tag |-> "Ok", val |-> vec, reads |-> rd \cup {ptr}]
    ELSE LET s == to_str(mem[ptr].cstr) IN
         IF s.tag = "Err"
         THEN [tag |-> "Panic", val |-> vec, reads |-> rd \cup {ptr}]
         ELSE strings_from_ptr_stops_at_empty(mem, ptr + 1, Append(vec, s.val), rd \cup {ptr})

\* strings_from_ptr that decodes lossily: U+FFFD stands in for a string
\* that is not UTF-8
RECURSIVE strings_from_ptr_lossy(_, _, _, _)
strings_from_ptr_lossy(mem, ptr, vec, rd) ==
    IF mem[ptr] = NULL
    THEN [tag |-> "Ok", val |-> vec, reads |-> rd \cup {ptr}]
    ELSE LET s == to_str(mem[ptr].cstr)
             t == IF s.tag = "Err" THEN [utf8 |-> <<239, 191, 189>>] ELSE s.val IN
         strings_from_ptr_lossy(mem, ptr + 1, Append(vec, t), rd \cup {ptr})

\* strings_from_ptr: walk the array from slot ptr until the null slot
RECURSIVE strings_from_ptr(_, _, _, _)
strings_from_ptr(mem, ptr, vec, rd) ==
    IF mem[ptr] = NULL
    THEN [tag |-> "Ok", val |-> vec, reads |-> rd \cup {ptr}]
    ELSE LET s == to_str(mem[ptr].cstr) IN
         IF s.tag = "Err"
         THEN [tag |-> "Panic", val |-> vec, reads |-> rd \cup {ptr}]
         ELSE strings_from_ptr(mem, ptr + 1, Append(vec, s.val), rd \cup {ptr})

(***************************************************************************)
(* Containment                                                             *)
(***************************************************************************)
\* handle_panic that forgets to store the flag
handle_panic_no_store(p, res) ==
    IF res.unwind
    THEN [ret |-> NoneV, panicked |-> p]
    ELSE [ret |-> Some(res.val), panicked |-> p]

\* handle_panic that stores the outcome of the latest call in the flag
handle_panic_latest(p, res) ==
    IF res.unwind
    THEN [ret |-> NoneV, panicked |-> TRUE]
    ELSE [ret |-> Some(res.val), panicked |-> FALSE]

\* handle_panic: the Option it returns and the flag it leaves
handle_panic(p, res) ==
    IF res.unwind
    THEN [ret |-> NoneV, panicked |-> TRUE]
    ELSE [ret |-> Some(res.val), panicked |-> p]

unwrap_or(opt, d) == IF opt.tag = "Some" THEN opt.val ELSE d

\* the `try` form of mod_fn!: Ok(()) => 0, Err(e) => 1
try_block(r) == IF r.tag = "Ok" THEN 0 ELSE 1

\* The extern "C" function mod_fn! generates. The label argument of
\* handle_panic, mod_get_name(mod).to_str().unwrap(), is evaluated before
\* handle_panic is entered: when it panics no catch_unwind is active.
mod_fn(mod, m, p, body) ==
    IF to_str(mod_get_name(mod)).tag = "Err"
    THEN [escaped |-> TRUE, ret |-> NoneV, caught |-> FALSE,
          module |-> m, panicked |-> p, invoked |-> <<>>, reads |-> {}]
    ELSE LET h == handle_panic(p, body) IN
         [escaped |-> FALSE, ret |-> Some(unwrap_or(h.ret, POISON_CODE)),
          caught |-> body.unwind, module |-> body.module,
          panicked |-> h.panicked, invoked |-> body.invoked, reads |-> body.reads]

(***************************************************************************)
(* Bodies of the entry points                                              *)
(***************************************************************************)
\* setup_: every builtin descriptor is pointed at the trampoline
patch(mo) == [mo EXCEPT !.handlerfunc = [n \in DOMAIN mo.handlerfunc |-> Some("builtin_callback")]]

setup_body(m, ctor) ==
    CASE ctor.tag = "Panic" -> Unwind("constructor panicked", m, <<>>, {})
      [] ctor.tag = "Err" -> Return(1, m, <<>>, {})
      [] ctor.tag = "Ok" -> Return(0, set_mod(m, patch(ctor.val)), <<>>, {})

boot_body(m) == Return(try_block(Ok("unit")), m, <<>>, {})

\* features_, enables_ and cleanup_ acquire the instance and delegate
features_body(m) ==
    IF get_mod(m).tag = "Err"
    THEN Unwind("No module set", m, <<>>, {})
    ELSE Return(0, m, <<>>, {})

enables_body(m, ext) ==
    IF get_mod(m).tag = "Err"
    THEN Unwind("No module set", m, <<>>, {})
    ELSE Return(ext, m, <<>>, {})

cleanup_body(m, ext) ==
    IF get_mod(m).tag = "Err"
    THEN Unwind("No module set", m, <<>>, {})
    ELSE Return(ext, m, <<>>, {})

finish_body(m, p) == Return(try_block(Ok("unit")), drop_mod(m, p), <<>>, {})

\* the closure with a lookup that reports a missing name as a failure
builtin_body_missing_fails(m, name, argv, hres) ==
    LET args == strings_from_ptr(argv, 1, <<>>, {}) IN
    IF args.tag = "Panic"
    THEN Unwind("Failed to parse arg", m, <<>>, args.reads)
    ELSE LET g == get_mod(m) IN
         IF g.tag = "Err"
         THEN Unwind("No module set", m, <<>>, args.reads)
         ELSE IF name \notin g.val.bintable
         THEN Return(1, m, <<>>, args.reads)
         ELSE LET s == to_str(name) IN
              IF s.tag = "Err"
              THEN Unwind("Failed to parse binary name", m, <<>>, args.reads)
              ELSE LET call == [bin |-> name, name |-> s.val, args |-> args.val] IN
                   CASE hres = "Ok" -> Return(0, m, <<call>>, args.reads)
                     [] hres = "Err" -> Return(1, m, <<call>>, args.reads)
                     [] hres = "Panic" -> Unwind("handler panicked", m, <<call>>, args.reads)

\* the closure with the handler's result unwrapped instead of matched
builtin_body_unwraps(m, name, argv, hres) ==
    LET args == strings_from_ptr(argv, 1, <<>>, {}) IN
    IF args.tag = "Panic"
    THEN Unwind("Failed to parse arg", m, <<>>, args.reads)
    ELSE LET g == get_mod(m) IN
         IF g.tag = "Err"
         THEN Unwind("No module set", m, <<>>, args.reads)
         ELSE IF name \notin g.val.bintable
         THEN Unwind("Failed to find binary name", m, <<>>, args.reads)
         ELSE LET s == to_str(name) IN
              IF s.tag = "Err"
              THEN Unwind("Failed to parse binary name", m, <<>>, args.reads)
              ELSE LET call == [bin |-> name, name |-> s.val, args |-> args.val] IN
                   CASE hres = "Ok" -> Return(0, m, <<call>>, args.reads)
                     [] hres = "Err" -> Unwind("called unwrap on an Err", m, <<call>>, args.reads)
                     [] hres = "Panic" -> Unwind("handler panicked", m, <<call>>, args.reads)

\* the closure of builtin_callback
builtin_body(m, name, argv, hres) ==
    LET args == strings_from_ptr(argv, 1, <<>>, {}) IN
    IF args.tag = "Panic"
    THEN Unwind("Failed to parse arg", m, <<>>, args.reads)
    ELSE LET g == get_mod(m) IN
         IF g.tag = "Err"
         THEN Unwind("No module set", m, <<>>, args.reads)
         ELSE IF name \notin g.val.bintable
         THEN Unwind("Failed to find binary name", m, <<>>, args.reads)
         ELSE LET s == to_str(name) IN
              IF s.tag = "Err"
              THEN Unwind("Failed to parse binary name", m, <<>>, args.reads)
              ELSE LET call == [bin |-> name, name |-> s.val, args |-> args.val] IN
                   CASE hres = "Ok" -> Return(0, m, <<call>>, args.reads)
                     [] hres = "Err" -> Return(1, m, <<call>>, args.reads)
                     [] hres = "Panic" -> Unwind("handler panicked", m, <<call>>, args.reads)

\* builtin_callback: the whole trampoline runs inside handle_panic
builtin_callback(m, p, name, argv, hres) ==
    LET body == builtin_body(m, name, argv, hres)
        h == handle_panic(p, body) IN
    [escaped |-> FALSE, ret |-> Some(unwrap_or(h.ret, POISON_CODE)),
     caught |-> body.unwind, module |-> body.module,
     panicked |-> h.panicked, invoked |-> body.invoked, reads |-> body.reads]

(***************************************************************************)
(* Actions: one per host call                                              *)
(***************************************************************************)
NoArg == <<>>

\* the state after a call with outcome out
Call(op, mod, name, argv, ext, new, out) ==
    /\ ~escaped
    /\ module' = out.module
    /\ panicked' = out.panicked
    /\ escaped' = out.escaped
    /\ last' = [op |-> op, mod |-> mod, name |-> name, argv |-> argv, ext |-> ext,
                ret |-> out.ret, caught |-> out.caught, invoked |-> out.invoked,
                reads |-> out.reads, preModule |-> module, prePanicked |-> panicked,
                built |-> new]
    /\ prev' = [op |-> last.op, ret |-> last.ret, ext |-> last.ext,
                invoked |-> last.invoked # <<>>]
    /\ everCaught' = (everCaught \/ out.caught)
    /\ setupOpen' =
         CASE op = "setup_" /\ out.ret = Some(0) -> TRUE
           [] op = "finish_" /\ out.ret # NoneV -> FALSE
           [] OTHER -> setupOpen
    /\ setupLive' =
         CASE op = "setup_" /\ out.ret = Some(0) -> TRUE
           [] op = "finish_" /\ out.ret # NoneV /\ ~panicked -> FALSE
           [] OTHER -> setupLive
    /\ UNCHANGED <<marshalVars, pathVars, concVars>>

\* the Module the constructor handed to setup_, when it ran and succeeded
Built(mod, ctor) ==
    IF to_str(mod_get_name(mod)).tag = "Ok" /\ ctor.tag = "Ok" THEN Some(ctor.val) ELSE NoneV

setup_ ==
    \E mod \in ModHandles, ctor \in CtorOutcomes :
        Call("setup_", mod.nam, NoArg, NoArg, ctor.tag, Built(mod, ctor),
             mod_fn(mod, module, panicked, setup_body(module, ctor)))

boot_ ==
    \E mod \in ModHandles :
        Call("boot_", mod.nam, NoArg, NoArg, "none", NoneV,
             mod_fn(mod, module, panicked, boot_body(module)))

features_ ==
    \E mod \in ModHandles :
        Call("features_", mod.nam, NoArg, NoArg, "none", NoneV,
             mod_fn(mod, module, panicked, features_body(module)))

enables_ ==
    \E mod \in ModHandles, ext \in ExtCodes :
        Call("enables_", mod.nam, NoArg, NoArg, "ext", NoneV,
             mod_fn(mod, module, panicked, enables_body(module, ext)))

cleanup_ ==
    \E mod \in ModHandles, ext \in ExtCodes :
        Call("cleanup_", mod.nam, NoArg, NoArg, "ext", NoneV,
             mod_fn(mod, module, panicked, cleanup_body(module, ext)))

finish_ ==
    \E mod \in ModHandles :
        Call("finish_", mod.nam, NoArg, NoArg, "none", NoneV,
             mod_fn(mod, module, panicked, finish_body(module, panicked)))

dispatch ==
    \E name \in DispatchNames, argv \in Argvs, hres \in HandlerOutcomes :
        Call("builtin_callback", NoArg, name, argv, hres, NoneV,
             builtin_callback(module, panicked, name, argv, hres))

HolderInit ==
    /\ module = NoneV
    /\ panicked = FALSE
    /\ escaped = FALSE
    /\ last = [op |-> "init", mod |-> NoArg, name |-> NoArg, argv |-> NoArg, ext |-> "none",
               ret |-> NoneV, caught |-> FALSE, invoked |-> <<>>, reads |-> {},
               preModule |-> NoneV, prePanicked |-> FALSE, built |-> NoneV]
    /\ prev = [op |-> "init", ret |-> NoneV, ext |-> "none", invoked |-> FALSE]
    /\ everCaught = FALSE
    /\ setupOpen = FALSE
    /\ setupLive = FALSE
    /\ lock = 0
    /\ stack = [t \in Threads |-> <<>>]
    /\ ret = [t \in Threads |-> NoneV]

Init ==
    /\ HolderInit
    /\ MarshalIdle
    /\ PathIdle

Next ==
    \/ setup_
    \/ boot_
    \/ features_
    \/ enables_
    \/ cleanup_
    \/ finish_
    \/ dispatch

Spec == Init /\ [][Next]_vars

(***************************************************************************)
(* SpecConc and SpecNested: calls in progress                              *)
(*                                                                         *)
(* A call is a frame on its thread's stack. The action that begins a call  *)
(* runs it up to its first access to the lock; each later action is one    *)
(* access to the lock, the holder or the flag. pc of a frame:              *)
(*   set_lock   setup_ is about to lock in set_mod                         *)
(*   take_lock  finish_ read the flag as false and is about to lock        *)
(*   get_lock   the call is about to lock in get_mod                       *)
(*   deleg      the call holds the guard and runs its zsys delegate        *)
(*   handler    builtin_callback holds the guard and runs the handler      *)
(*   store      catch_unwind caught a panic; the flag is not yet stored    *)
(*   escaped    the unwind left the extern "C" function                    *)
(***************************************************************************)
Frame(op, pc, name, new) == [op |-> op, pc |-> pc, name |-> name, new |-> new]

\* the innermost call of thread t
Top(t) == stack[t][Len(stack[t])]

\* Mutex::lock with no mutual exclusion
lock_free_always(l) == TRUE

\* Mutex::lock returns once no guard exists; the mutex is not reentrant
lock_free(l) == l = 0

\* mod_get_name(mod).to_str().unwrap() does not panic
NameOk(mod) == to_str(mod_get_name(mod)).tag = "Ok"

\* builtin_callback on thread t found its name in bintable and decoded it:
\* the handler of the innermost call runs. (The guard keeps the instance in
\* place, so get_mod(module) is the instance borrowed at get_lock.)
HandlerRuns(t) ==
    LET g == get_mod(module) IN
    /\ g.tag = "Ok"
    /\ Top(t).name \in g.val.bintable
    /\ to_str(Top(t).name).tag = "Ok"

\* the host may call into the module on thread t: the thread is outside the
\* module or, when nest, inside a builtin handler that calls back
CanCall(t, nest) ==
    /\ ~escaped
    /\ \/ stack[t] = <<>>
       \/ /\ nest
          /\ stack[t] # <<>>
          /\ Len(stack[t]) < MaxDepth
          /\ Top(t).op = "builtin_callback"
          /\ Top(t).pc = "handler"
          /\ HandlerRuns(t)

\* the innermost call of t is at pc
At(t, pc) == ~escaped /\ stack[t] # <<>> /\ Top(t).pc = pc

Push(t, f) ==
    /\ stack' = [stack EXCEPT ![t] = Append(@, f)]
    /\ ret' = [ret EXCEPT ![t] = NoneV]

Goto(t, pc) ==
    /\ stack' = [stack EXCEPT ![t][Len(stack[t])].pc = pc]
    /\ ret' = ret

\* the innermost call of t returns code to the host
ReturnCode(t, code) ==
    /\ stack' = [stack EXCEPT ![t] = SubSeq(@, 1, Len(@) - 1)]
    /\ ret' = [ret EXCEPT ![t] = Some(code)]

\* a call that returns before any access to the lock
ReturnAtOnce(t, code) ==
    /\ stack' = stack
    /\ ret' = [ret EXCEPT ![t] = Some(code)]

\* the code of a closure that returned v, through handle_panic and unwrap_or
Through(p, v) == unwrap_or(handle_panic(p, Return(v, NoneV, <<>>, {})).ret, POISON_CODE)

\* the label conversion of mod_fn! panicked outside catch_unwind
Escape(t, op) ==
    /\ escaped' = TRUE
    /\ Push(t, Frame(op, "escaped", NoArg, NoneV))
    /\ UNCHANGED <<module, panicked, lock>>

\* a lifecycle call that got past the label conversion
Entered(t, op, pc, new) ==
    /\ Push(t, Frame(op, pc, NoArg, new))
    /\ UNCHANGED <<module, panicked, escaped, lock>>

c_setup(t, nest) ==
    \E mod \in ModHandles, ctor \in CtorOutcomes :
        /\ CanCall(t, nest)
        /\ IF ~NameOk(mod) THEN Escape(t, "setup_")
           ELSE CASE ctor.tag = "Panic" -> Entered(t, "setup_", "store", NoneV)
                  [] ctor.tag = "Err" ->
                        /\ ReturnAtOnce(t, Through(panicked, 1))
                        /\ UNCHANGED <<module, panicked, escaped, lock>>
                  [] ctor.tag = "Ok" -> Entered(t, "setup_", "set_lock", Some(patch(ctor.val)))
        /\ UNCHANGED <<histVars, marshalVars, pathVars>>

\* set_mod: lock, assign, unlock
c_set(t) ==
    /\ At(t, "set_lock")
    /\ lock_free(lock)
    /\ module' = set_mod(module, Top(t).new.val)
    /\ ReturnCode(t, Through(panicked, 0))
    /\ UNCHANGED <<panicked, escaped, lock, histVars, marshalVars, pathVars>>

c_boot(t, nest) ==
    \E mod \in ModHandles :
        /\ CanCall(t, nest)
        /\ IF ~NameOk(mod) THEN Escape(t, "boot_")
           ELSE /\ ReturnAtOnce(t, Through(panicked, try_block(Ok("unit"))))
                /\ UNCHANGED <<module, panicked, escaped, lock>>
        /\ UNCHANGED <<histVars, marshalVars, pathVars>>

c_features(t, nest) ==
    \E mod \in ModHandles :
        /\ CanCall(t, nest)
        /\ IF ~NameOk(mod) THEN Escape(t, "features_")
           ELSE Entered(t, "features_", "get_lock", NoneV)
        /\ UNCHANGED <<histVars, marshalVars, pathVars>>

c_enables(t, nest) ==
    \E mod \in ModHandles :
        /\ CanCall(t, nest)
        /\ IF ~NameOk(mod) THEN Escape(t, "enables_")
           ELSE Entered(t, "enables_", "get_lock", NoneV)
        /\ UNCHANGED <<histVars, marshalVars, pathVars>>

c_cleanup(t, nest) ==
    \E mod \in ModHandles :
        /\ CanCall(t, nest)
        /\ IF ~NameOk(mod) THEN Escape(t, "cleanup_")
           ELSE Entered(t, "cleanup_", "get_lock", NoneV)
        /\ UNCHANGED <<histVars, marshalVars, pathVars>>

\* finish_ up to the load of the flag in drop_mod
c_finish(t, nest) ==
    \E mod \in ModHandles :
        /\ CanCall(t, nest)
        /\ IF ~NameOk(mod) THEN Escape(t, "finish_")
           ELSE IF panicked
           THEN /\ ReturnAtOnce(t, Through(panicked, try_block(Ok("unit"))))
                /\ UNCHANGED <<module, panicked, escaped, lock>>
           ELSE Entered(t, "finish_", "take_lock", NoneV)
        /\ UNCHANGED <<histVars, marshalVars, pathVars>>

\* drop_mod after the test: lock, take, unlock
c_take(t) ==
    /\ At(t, "take_lock")
    /\ lock_free(lock)
    /\ module' = drop_mod(module, FALSE)
    /\ ReturnCode(t, Through(panicked, try_block(Ok("unit"))))
    /\ UNCHANGED <<panicked, escaped, lock, histVars, marshalVars, pathVars>>

\* the argument arrays of the calls in progress: one argument, which
\* decodes or not
ConcArgvs == {<<Ptr(c), NULL, Ptr(cX)>> : c \in ArgStrs}

\* builtin_callback up to get_mod: the arguments are marshalled
c_dispatch(t, nest) ==
    \E name \in DispatchNames, argv \in ConcArgvs :
        /\ CanCall(t, nest)
        /\ IF strings_from_ptr(argv, 1, <<>>, {}).tag = "Panic"
           THEN Push(t, Frame("builtin_callback", "store", NoArg, NoneV))
           ELSE Push(t, Frame("builtin_callback", "get_lock", name, NoneV))
        /\ UNCHANGED <<module, panicked, escaped, lock, histVars, marshalVars, pathVars>>

\* get_mod: lock, then expect("No module set") inside MutexGuard::map; when
\* it panics the guard is dropped by the unwind
c_acquire(t) ==
    /\ At(t, "get_lock")
    /\ lock_free(lock)
    /\ IF get_mod(module).tag = "Err"
       THEN Goto(t, "store") /\ lock' = lock
       ELSE /\ lock' = t
            /\ Goto(t, IF Top(t).op = "builtin_callback" THEN "handler" ELSE "deleg")
    /\ UNCHANGED <<module, panicked, escaped, histVars, marshalVars, pathVars>>

\* the delegate of features_, enables_ or cleanup_ returns; the guard is
\* dropped at the end of the closure
c_delegate(t) ==
    \E ext \in ExtCodes :
        /\ At(t, "deleg")
        /\ lock' = 0
        /\ ReturnCode(t, Through(panicked, IF Top(t).op = "features_" THEN 0 ELSE ext))
        /\ UNCHANGED <<module, panicked, escaped, histVars, marshalVars, pathVars>>

\* the lookup and the handler of builtin_callback; the guard is dropped at
\* the end of the closure or by the unwind
c_handler(t) ==
    \E hres \in HandlerOutcomes :
        /\ At(t, "handler")
        /\ lock' = 0
        /\ CASE ~HandlerRuns(t) \/ hres = "Panic" -> Goto(t, "store")
             [] HandlerRuns(t) /\ hres = "Ok" -> ReturnCode(t, Through(panicked, 0))
             [] HandlerRuns(t) /\ hres = "Err" -> ReturnCode(t, Through(panicked, 1))
        /\ UNCHANGED <<module, panicked, escaped, histVars, marshalVars, pathVars>>

\* handle_panic after catch_unwind returned Err: store the flag, return None
c_store(t) ==
    /\ At(t, "store")
    /\ LET h == handle_panic(panicked, Unwind("", NoneV, <<>>, {})) IN
       /\ panicked' = h.panicked
       /\ ReturnCode(t, unwrap_or(h.ret, POISON_CODE))
    /\ UNCHANGED <<module, escaped, lock, histVars, marshalVars, pathVars>>

\* the host calls an entry point on thread t
ConcCalls(t, nest) ==
    \/ c_setup(t, nest)
    \/ c_boot(t, nest)
    \/ c_features(t, nest)
    \/ c_enables(t, nest)
    \/ c_cleanup(t, nest)
    \/ c_finish(t, nest)
    \/ c_dispatch(t, nest)

\* a call in progress on thread t takes its next step
ConcSteps(t) ==
    \/ c_set(t)
    \/ c_take(t)
    \/ c_acquire(t)
    \/ c_delegate(t)
    \/ c_handler(t)
    \/ c_store(t)

ConcNext == \E t \in Threads : ConcCalls(t, FALSE) \/ ConcSteps(t)

SpecConc == Init /\ [][ConcNext]_vars

\* Threads are scheduled fairly, delegates and handlers return, and a
\* thread that waits for the mutex gets it when it is free again and again
\* (parking_lot hands the lock over to waiters).
ConcFairness ==
    \A t \in Threads :
        /\ WF_vars(c_delegate(t) \/ c_handler(t) \/ c_store(t))
        /\ SF_vars(c_set(t) \/ c_take(t) \/ c_acquire(t))

SpecConcFair == SpecConc /\ ConcFairness

\* one host thread; its handlers may call back into the module
NestedNext == ConcCalls(1, TRUE) \/ ConcSteps(1)

SpecNested == Init /\ [][NestedNext]_vars

(***************************************************************************)
(* SpecMarshal: strings_from_ptr on its own                                *)
(***************************************************************************)
\* the strings an array can point at: the empty string, "x", and 0xFF
MarshalStrs == {<<>>, cX, cBad}

\* null-terminated arrays of up to MaxPtrs strings, followed by memory that
\* is not part of the array
MarshalArrays ==
    {a \o <<NULL, Ptr(cX)>> : a \in SeqsUpTo({Ptr(c) : c \in MarshalStrs}, MaxPtrs)}

MarshalInit ==
    /\ marsh \in {[argv |-> a, out |-> NoneV] : a \in MarshalArrays}
    /\ HolderInit
    /\ PathIdle

\* one call of strings_from_ptr on the array
marshal ==
    /\ marsh.out = NoneV
    /\ marsh' = [marsh EXCEPT !.out = Some(strings_from_ptr(marsh.argv, 1, <<>>, {}))]
    /\ UNCHANGED <<holderVars, pathVars>>

MarshalNext == marshal

SpecMarshal == MarshalInit /\ [][MarshalNext]_vars

(***************************************************************************)
(* SpecPath: FilePath                                                      *)
(***************************************************************************)
\* A path is its sequence of bytes. Paths are built from the character
\* "a", the two-byte character U+00E9 and the stray byte 0xFF.
PathUnits == {<<97>>, <<195, 169>>, <<255>>}

RECURSIVE Flatten(_)
Flatten(us) == IF us = <<>> THEN <<>> ELSE Head(us) \o Flatten(Tail(us))

Paths == {Flatten(us) : us \in SeqsUpTo(PathUnits, MaxPathUnits)}

\* the files that may be present
OnDisk == {<<97>>, <<195, 169>>, <<255>>}

\* Path::exists
exists(fsys, path) == path \in fsys

\* Path::to_string_lossy().to_string(): the UTF-8 text of the path, with
\* U+FFFD for every byte that starts no character. (Three- and four-byte
\* characters do not occur in Paths.)
RECURSIVE to_string_lossy(_)
to_string_lossy(b) ==
    IF b = <<>> THEN <<>>
    ELSE IF b[1] < 128 THEN <<b[1]>> \o to_string_lossy(Tail(b))
    ELSE IF b[1] \in 194..223 /\ Len(b) >= 2 /\ b[2] \in 128..191
    THEN <<b[1], b[2]>> \o to_string_lossy(Tail(Tail(b)))
    ELSE <<239, 191, 189>> \o to_string_lossy(Tail(b))

\* the number of bytes of the character that starts with byte b
utf8_width(b) == IF b < 128 THEN 1 ELSE IF b < 224 THEN 2 ELSE IF b < 240 THEN 3 ELSE 4

\* str::chars().count()
RECURSIVE chars_count(_)
chars_count(str) ==
    IF str = <<>> THEN 0
    ELSE 1 + chars_count(SubSeq(str, utf8_width(str[1]) + 1, Len(str)))

FileNotFound(path) == Err([kind |-> "FileNotFound", path |-> path])

\* FilePath::new_unchecked
FilePath_new_unchecked(pathlike) ==
    LET path == pathlike
        string == to_string_lossy(path)
        length == chars_count(string) IN
    [path |-> path, string |-> string, length |-> length]

\* FilePath::new that caches the byte length of the string
FilePath_new_byte_length(fsys, pathlike) ==
    LET path == pathlike IN
    IF ~exists(fsys, path) THEN FileNotFound(path)
    ELSE LET string == to_string_lossy(path)
             length == Len(string) IN
         Ok([path |-> path, string |-> string, length |-> length])

\* FilePath::new
FilePath_new(fsys, pathlike) ==
    LET path == pathlike IN
    IF ~exists(fsys, path) THEN FileNotFound(path)
    ELSE LET string == to_string_lossy(path)
             length == chars_count(string) IN
         Ok([path |-> path, string |-> string, length |-> length])

\* FilePath::set(mut self, p): `self` is the method's own value, moved in by
\* the caller; the result and the value of `self` when the method returns
FilePath_set(fsys, self, new_pathlike_value) ==
    LET r == FilePath_new(fsys, new_pathlike_value) IN
    IF r.tag = "Err"
    THEN [result |-> r, self |-> self]
    ELSE [result |-> Ok("unit"), self |-> r.val]

\* a binding whose value was moved out
Moved == [tag |-> "Moved"]

PathInit ==
    /\ fs \in SUBSET OnDisk
    /\ fp = NoneV
    /\ fpLast = [op |-> "init", arg |-> <<>>, res |-> NoneV, pre |-> NoneV, self |-> NoneV]
    /\ HolderInit
    /\ MarshalIdle

\* fp = FilePath::new(p)?
fp_new ==
    \E p \in Paths :
        LET r == FilePath_new(fs, p) IN
        /\ fp' = IF r.tag = "Ok" THEN Some(r.val) ELSE fp
        /\ fpLast' = [op |-> "new", arg |-> p, res |-> r, pre |-> fp, self |-> NoneV]
        /\ UNCHANGED <<fs, holderVars, marshalVars>>

\* fp = FilePath::new_unchecked(p)
fp_new_unchecked ==
    \E p \in Paths :
        LET v == FilePath_new_unchecked(p) IN
        /\ fp' = Some(v)
        /\ fpLast' = [op |-> "new_unchecked", arg |-> p, res |-> [tag |-> "Self", val |-> v],
                      pre |-> fp, self |-> NoneV]
        /\ UNCHANGED <<fs, holderVars, marshalVars>>

\* fp.set(p), which moves fp into the call, or fp.clone().set(p), which
\* moves a copy; the method's `self` is dropped when it returns
fp_set ==
    \E p \in Paths, byClone \in BOOLEAN :
        /\ fp.tag = "Some"
        /\ LET r == FilePath_set(fs, fp.val, p) IN
           /\ fp' = IF byClone THEN fp ELSE Moved
           /\ fpLast' = [op |-> "set", arg |-> p, res |-> r.result, pre |-> fp,
                         self |-> Some(r.self)]
        /\ UNCHANGED <<fs, holderVars, marshalVars>>

PathNext ==
    \/ fp_new
    \/ fp_new_unchecked
    \/ fp_set

SpecPath == PathInit /\ [][PathNext]_vars

(***************************************************************************)
(* Properties                                                              *)
(***************************************************************************)
LifecycleOps == {"setup_", "boot_", "features_", "enables_", "cleanup_", "finish_"}
EntryOps == LifecycleOps \cup {"builtin_callback"}

\* C1: every entry-point or dispatch call ends by returning an integer code;
\* no unwind leaves the extern "C" function, whatever the host supplies.
C1_NoUnwindEscapes ==
    last.op \in EntryOps => (~escaped /\ last.ret # NoneV)

\* C2: a call returns 65 exactly when an unwind was caught during it; the
\* poisoned flag is true exactly when some call so far caught an unwind; a
\* call that ends with 0 or 1 leaves the flag as it found it.
C2_SentinelIffCaught ==
    /\ last.op \in EntryOps => ((last.ret = Some(POISON_CODE)) <=> last.caught)
    /\ panicked <=> everCaught
    /\ (last.op \in EntryOps /\ last.ret \in {Some(0), Some(1)})
          => panicked = last.prePanicked

\* a call that returned 1 in a poisoned state, right after a call that
\* returned 65
C2_Witness ==
    /\ prev.ret = Some(POISON_CODE)
    /\ last.ret = Some(1)
    /\ panicked

\* C3 as stated: the holder has at most one instance, and it has one exactly
\* when the most recent successful setup has not been followed by a finish
\* call that returned.
C3_PresentIffSetupOpen ==
    /\ module.tag \in {"None", "Some"}
    /\ (module.tag = "Some") <=> setupOpen

\* C3 amended: the holder has at most one instance, and it has one exactly
\* when the most recent successful setup has not been followed by a finish
\* call that started with the poisoned flag clear and returned.
C3_PresentIffSetupLive ==
    /\ module.tag \in {"None", "Some"}
    /\ (module.tag = "Some") <=> setupLive

\* a finish call that started poisoned returned 0 and the instance is
\* still installed
C3_Witness ==
    /\ last.op = "finish_"
    /\ last.ret = Some(0)
    /\ last.prePanicked
    /\ module.tag = "Some"

\* C4: the poisoned flag starts false and no call makes it false again.
C4_PoisonMonotonic ==
    /\ ~panicked
    /\ [][panicked => panicked']_vars

\* a setup succeeded and a finish returned, both in a poisoned state, and
\* the flag is still set
C4_Witness ==
    /\ prev.op = "setup_" /\ prev.ret = Some(0)
    /\ last.op = "finish_" /\ last.ret = Some(0)
    /\ last.prePanicked
    /\ panicked

\* C5: a finish call that starts with the poisoned flag set leaves the
\* holder's contents as they were and returns without panicking.
C5_FinishUnderPoisonIsNoOp ==
    (last.op = "finish_" /\ last.prePanicked)
        => (module = last.preModule /\ ~escaped /\ last.ret # NoneV)

\* the operations that acquire the instance
AcquiringOps == {"features_", "enables_", "cleanup_", "builtin_callback"}

\* C6: an acquiring operation invoked before a setup has succeeded or after
\* a finish call has returned takes the fatal path: the unwind is caught,
\* the code is 65 and the poisoned flag is set.
C6_AcquireWithoutSetupIsFatal ==
    (last.op \in AcquiringOps /\ ~setupOpen)
        => (last.caught /\ last.ret = Some(POISON_CODE) /\ panicked)

\* the index of the terminator of a pointer array
Terminator(argv) ==
    CHOOSE k \in 1..Len(argv) : argv[k].null /\ \A j \in 1..(k - 1) : ~argv[j].null

\* every string before the terminator is ASCII text
Decodable(argv) ==
    \A i \in 1..(Terminator(argv) - 1) :
        \A j \in 1..Len(argv[i].cstr) : argv[i].cstr[j] < 128

\* the strings before the terminator, in order, as text
TextArgs(argv) == [i \in 1..(Terminator(argv) - 1) |-> [utf8 |-> argv[i].cstr]]

\* C7: with an instance installed, dispatching a registered name with
\* decodable arguments invokes that name's handler once, with the invoked
\* name and the arguments in order, and returns 0 when the handler succeeds;
\* dispatching a name that is not in the table invokes no handler and
\* returns 65.
C7_DispatchRoutes ==
    (last.op = "builtin_callback" /\ last.preModule.tag = "Some")
        => IF last.name \in last.preModule.val.bintable
           THEN Decodable(last.argv)
                  => /\ last.invoked = <<[bin |-> last.name,
                                          name |-> [utf8 |-> last.name],
                                          args |-> TextArgs(last.argv)]>>
                     /\ last.ext = "Ok" => last.ret = Some(0)
           ELSE last.invoked = <<>> /\ last.ret = Some(POISON_CODE)

\* builtins a and b are registered and dispatch(a, [x]) reached handler a
\* with [x] and returned 0
C7_Witness ==
    /\ last.op = "builtin_callback"
    /\ last.preModule.tag = "Some"
    /\ last.preModule.val.bintable = {cA, cB}
    /\ last.name = cA
    /\ last.invoked = <<[bin |-> cA, name |-> [utf8 |-> cA], args |-> <<[utf8 |-> cX]>>]>>
    /\ last.ret = Some(0)

\* C8: when a handler returns an error the dispatch returns 1, the call
\* leaves the poisoned flag as it was, the instance stays installed, and
\* the next dispatch of a registered name reaches its handler.
C8_HandlerErrorIsOrdinary ==
    /\ (last.op = "builtin_callback" /\ last.ext = "Err" /\ Len(last.invoked) = 1)
          => /\ last.ret = Some(1)
             /\ panicked = last.prePanicked
             /\ module = last.preModule
             /\ module.tag = "Some"
    /\ (prev.op = "builtin_callback" /\ prev.ext = "Err" /\ prev.invoked
          /\ last.op = "builtin_callback")
          => /\ last.preModule.tag = "Some"
             /\ (last.name \in last.preModule.val.bintable /\ Decodable(last.argv))
                   => (Len(last.invoked) = 1 /\ last.invoked[1].bin = last.name)

\* a handler returned an error and the next dispatch reached handler b
C8_Witness ==
    /\ prev.op = "builtin_callback" /\ prev.ext = "Err" /\ prev.invoked
    /\ prev.ret = Some(1)
    /\ last.op = "builtin_callback"
    /\ Len(last.invoked) = 1
    /\ last.invoked[1].bin = cB
    /\ ~panicked

\* C9: when the constructor returns an error, setup returns 1 and leaves
\* the holder and the poisoned flag unchanged, and a finish call made
\* directly afterwards returns 0 without panicking.
C9_FailedSetupRegistersNothing ==
    /\ (last.op = "setup_" /\ last.ext = "Err" /\ last.ret # NoneV)
          => /\ last.ret = Some(1)
             /\ module = last.preModule
             /\ panicked = last.prePanicked
    /\ (prev.op = "setup_" /\ prev.ext = "Err" /\ prev.ret = Some(1)
          /\ last.op = "finish_")
          => (~escaped /\ last.ret = Some(0))

\* C10: two finish calls in a row both return without an unwind, and the
\* state after the second equals the state after the first.
C10_FinishIdempotent ==
    /\ last.op = "finish_" => (~escaped /\ last.ret # NoneV)
    /\ (prev.op = "finish_" /\ last.op = "finish_")
          => (module = last.preModule /\ panicked = last.prePanicked)

\* C13: for a null-terminated array of n valid strings strings_from_ptr
\* returns n text values, the i-th equal to the i-th string, and reads no
\* slot after the terminator.
C13_MarshalKeepsCountAndOrder ==
    (marsh.out # NoneV /\ Decodable(marsh.argv))
        => LET r == marsh.out.val
               n == Terminator(marsh.argv) - 1 IN
           /\ r.tag = "Ok"
           /\ Len(r.val) = n
           /\ \A i \in 1..n : r.val[i] = [utf8 |-> marsh.argv[i].cstr]
           /\ \A k \in r.reads : k <= n + 1

\* the array ["x", "", "x"] was marshalled into three values in that order
C13_Witness ==
    /\ marsh.argv = <<Ptr(cX), Ptr(<<>>), Ptr(cX), NULL, Ptr(cX)>>
    /\ marsh.out # NoneV
    /\ marsh.out.val.tag = "Ok"
    /\ marsh.out.val.val = <<[utf8 |-> cX], [utf8 |-> <<>>], [utf8 |-> cX]>>
    /\ marsh.out.val.reads = 1..4

\* C14: when an argument before the terminator is not valid UTF-8 the
\* dispatch takes the fatal path: no handler is invoked, the unwind is
\* caught, the code is 65 and the poisoned flag is set.
C14_UndecodableArgIsFatal ==
    (last.op = "builtin_callback" /\ ~Decodable(last.argv))
        => /\ last.invoked = <<>>
           /\ last.caught
           /\ last.ret = Some(POISON_CODE)
           /\ panicked

\* dispatch(a, [x, <0xFF>]) with a registered and the flag clear: no
\* handler ran, the code is 65 and the flag is set
C14_Witness ==
    /\ last.op = "builtin_callback"
    /\ last.argv = <<Ptr(cX), Ptr(cBad), NULL, Ptr(cX)>>
    /\ last.preModule.tag = "Some"
    /\ last.name \in last.preModule.val.bintable
    /\ ~last.prePanicked
    /\ last.invoked = <<>>
    /\ last.ret = Some(POISON_CODE)
    /\ panicked

\* C19: boot, features, enables, cleanup and dispatch leave the presence
\* of the instance unchanged whatever they return; boot returns 0 in every
\* state and touches neither the holder nor the poisoned flag; after a
\* cleanup that returned its delegate's code the instance can be acquired.
C19_OnlySetupAndFinishMoveTheInstance ==
    /\ last.op \in {"boot_", "features_", "enables_", "cleanup_", "builtin_callback"}
          => module.tag = last.preModule.tag
    /\ last.op = "boot_"
          => /\ last.ret = Some(0)
             /\ module = last.preModule
             /\ panicked = last.prePanicked
    /\ (last.op = "cleanup_" /\ last.ret \in {Some(0), Some(1)})
          => get_mod(module).tag = "Ok"

\* C20: a setup whose constructor succeeds returns 0 and installs the new
\* instance (patched) in every state, poisoned or not, replacing an
\* installed one; an instance in the holder while the poisoned flag is set
\* is never removed.
C20_SetIgnoresPoison ==
    /\ [](last.built # NoneV
            => /\ last.op = "setup_"
               /\ last.ret = Some(0)
               /\ module.tag = "Some"
               /\ module.val.bintable = last.built.val.bintable
               /\ \A n \in module.val.bintable :
                     module.val.handlerfunc[n] = Some("builtin_callback"))
    /\ [][(panicked /\ module.tag = "Some") => module'.tag = "Some"]_vars

\* a setup in a poisoned state returned 0 and replaced the installed
\* instance by one with another dispatch table
C20_Witness ==
    /\ last.op = "setup_"
    /\ last.ret = Some(0)
    /\ last.prePanicked /\ panicked
    /\ last.preModule.tag = "Some"
    /\ last.preModule.val.bintable = {cA}
    /\ last.built # NoneV
    /\ module.tag = "Some"
    /\ module.val.bintable = {cA, cB}

\* the string form of a path: its bytes, with U+FFFD for each stray 0xFF
StringForm(p) ==
    Flatten([i \in 1..Len(p) |-> IF p[i] = 255 THEN <<239, 191, 189>> ELSE <<p[i]>>])

\* the characters of a UTF-8 string: its bytes that are not continuations
CharCount(str) == Cardinality({i \in 1..Len(str) : str[i] \notin 128..191})

\* v caches path p, its string form and the character count of the string
Caches(v, p) ==
    /\ v.path = p
    /\ v.string = StringForm(p)
    /\ v.length = CharCount(v.string)

\* C15: FilePath::new on an existing path returns a value with the string
\* form of the path and that string's character count; on a path that does
\* not exist it fails with FileNotFound; new_unchecked returns such a value
\* for every path.
C15_NewCachesStringAndLength ==
    /\ fpLast.op = "new"
          => IF fpLast.arg \in fs
             THEN fpLast.res.tag = "Ok" /\ Caches(fpLast.res.val, fpLast.arg)
             ELSE fpLast.res = Err([kind |-> "FileNotFound", path |-> fpLast.arg])
    /\ fpLast.op = "new_unchecked"
          => fpLast.res.tag = "Self" /\ Caches(fpLast.res.val, fpLast.arg)

\* new on the existing path U+00E9: two bytes of string, length 1
C15_Witness ==
    /\ fpLast.op = "new"
    /\ fpLast.arg = <<195, 169>>
    /\ fpLast.arg \in fs
    /\ fpLast.res.tag = "Ok"
    /\ fpLast.res.val.string = <<195, 169>>
    /\ fpLast.res.val.length = 1

\* C16: after set(p) returns Ok the FilePath it was called on holds path,
\* string and length of p; when p does not exist set returns FileNotFound
\* and the FilePath is unchanged.
C16_SetUpdatesTheValue ==
    /\ (fpLast.op = "set" /\ fpLast.res.tag = "Ok")
          => (fp.tag = "Some" /\ Caches(fp.val, fpLast.arg))
    /\ (fpLast.op = "set" /\ fpLast.arg \notin fs)
          => /\ fpLast.res = Err([kind |-> "FileNotFound", path |-> fpLast.arg])
             /\ fp = fpLast.pre
(***************************************************************************)
(* Calls in progress (SpecConc, SpecConcFair, SpecNested)                  *)
(***************************************************************************)
\* the calls of thread t that hold the guard returned by get_mod
Holding(t) == {i \in 1..Len(stack[t]) : stack[t][i].pc \in {"handler", "deleg"}}

\* the innermost call of t waits in Mutex::lock
Waiting(t) == stack[t] # <<>> /\ Top(t).pc \in {"set_lock", "take_lock", "get_lock"}

\* the innermost call of t unwound into catch_unwind and has not stored the flag
Unwinding(t) == stack[t] # <<>> /\ Top(t).pc = "store"

\* C11: with calls arriving on several host threads, at most one call holds
\* the instance handle at any time (no two handler executions or
\* delegations on the instance overlap), and the call that holds it holds
\* the holder lock.
C11_AtMostOneHolder ==
    /\ Cardinality({t \in Threads : Holding(t) # {}}) <= 1
    /\ \A t \in Threads : Holding(t) # {} => (Cardinality(Holding(t)) = 1 /\ lock = t)

\* a handler runs on thread 1 while a dispatch on thread 2 waits for the lock
C11_Witness ==
    /\ lock = 1
    /\ stack[1] # <<>> /\ Top(1).op = "builtin_callback" /\ Top(1).pc = "handler"
    /\ HandlerRuns(1)
    /\ stack[2] # <<>> /\ Top(2).op = "builtin_callback" /\ Top(2).pc = "get_lock"
    /\ module.tag = "Some"

\* C12: under fair scheduling, with handlers and delegates that return,
\* every call in progress eventually returns a code, and no thread that is
\* outside the module holds the lock (a caught unwind released it).
C12_EveryCallReturns ==
    /\ \A t \in Threads : (stack[t] # <<>>) ~> (stack[t] = <<>> /\ ret[t] # NoneV)
    /\ [](\A t \in Threads : stack[t] = <<>> => lock # t)

\* C17: the instance is never removed while the poisoned flag is true, nor
\* after a call has unwound into catch_unwind.
C17_ClearNeverUnderPoison ==
    [][(module.tag = "Some" /\ module'.tag = "None")
          => (~panicked /\ \A t \in Threads : ~Unwinding(t))]_vars

\* C18: a call issued from inside a running handler, on the handler's
\* thread, never waits for the lock its own thread holds (the mutex is not
\* reentrant and the outer call cannot release it before the nested call
\* returns, so such a wait never ends).
C18_NestedCallDoesNotBlock ==
    \A t \in Threads : ~(Len(stack[t]) >= 2 /\ Waiting(t) /\ lock = t)

====
